---- MODULE Spec2Model ----
(***************************************************************************)
(* A model of tcx.py: the Workout / Lap / Track / Trackpoint views over    *)
(* an lxml element tree, the two merge operations (Lap.merge and           *)
(* Workout.merge) and the batch report loop handle_info.                   *)
(*                                                                         *)
(* The element tree is modelled by its shape.  A document (one Workout) is *)
(* the sequence of the Lap children of its Activity element.  A Lap is     *)
(*   [id, start, fields, tracks]                                           *)
(* where start is the text of the StartTime attribute, fields is the       *)
(* sequence (of length 0 or 1) of the scalar children TotalTimeSeconds,    *)
(* DistanceMeters and Calories, which precede the Track children, and      *)
(* tracks is the sequence of Track children.  A Track is [id, tps] and a   *)
(* Trackpoint is [id, time, dist].  The id fields stand for the identity   *)
(* of the element objects; they are never read by the program.             *)
(*                                                                         *)
(* Texts that the program converts are modelled by layout and value:       *)
(* a time text is [layout, val] with layout "whole" (%Y-%m-%dT%H:%M:%SZ)   *)
(* or "frac" (%Y-%m-%dT%H:%M:%S.%fZ); the TotalTimeSeconds text is         *)
(* [layout, val] with layout "int" ("1800") or "dec" ("1800.0", which the  *)
(* TCX schema, where the element is a double, allows).  Distances are      *)
(* floats that hold whole numbers, so that float addition is exact; they   *)
(* are modelled by their value.                                            *)
(***************************************************************************)
EXTENDS Integers, Sequences, FiniteSets, TLC

VARIABLES
    docs,      \* docs[w]: the Lap children of workout w's Activity, in document order
    pre,       \* docs as they were before the merge call
    call,      \* the merge call that was made, or [op |-> "none"]
    outcome,   \* how the call ended: [err, info]
    files,     \* handle_info: the input list, one entry per file
    pos,       \* handle_info: the number of loop iterations completed
    stream,    \* handle_info: what has been printed to the stream
    aborted    \* handle_info: TRUE when an exception left the for loop

vars == <<docs, pre, call, outcome, files, pos, stream, aborted>>

(***************************************************************************)
(* Bounds of the model.                                                    *)
(***************************************************************************)
MaxTime == 2      \* times are 0..MaxTime
MaxPoints == 3    \* trackpoints of the two laps of a lap-level input, together
MaxLaps == 2      \* laps of a workout of a workout-level input
MaxFiles == 4     \* length of the input list of handle_info

Times == 0..MaxTime
Workouts == {1, 2}

(***************************************************************************)
(* Program constants.                                                      *)
(***************************************************************************)
APPEND_LAPS == 1
MERGE_INTO_SINGLE_LAP == 2
MERGE_INTO_SINGLE_TRACK == 3

WorkoutMergeKinds == {APPEND_LAPS, MERGE_INTO_SINGLE_LAP, MERGE_INTO_SINGLE_TRACK}
LapMergeKinds == {MERGE_INTO_SINGLE_LAP, MERGE_INTO_SINGLE_TRACK}

\* TCX.__TimeFormats: the layouts parse_time tries, in order.
TimeFormats == <<"frac", "whole">>

(***************************************************************************)
(* Sequence helpers.                                                       *)
(***************************************************************************)
RECURSIVE Concat(_)
Concat(ss) == IF ss = <<>> THEN <<>> ELSE Head(ss) \o Concat(Tail(ss))

RECURSIVE SumSeq(_)
SumSeq(s) == IF s = <<>> THEN 0 ELSE Head(s) + SumSeq(Tail(s))

Max2(a, b) == IF a >= b THEN a ELSE b
Min2(a, b) == IF a <= b THEN a ELSE b

SeqMax(s) == CHOOSE x \in {s[i] : i \in 1..Len(s)} : \A j \in 1..Len(s) : s[j] <= x
SeqMin(s) == CHOOSE x \in {s[i] : i \in 1..Len(s)} : \A j \in 1..Len(s) : x <= s[j]

(***************************************************************************)
(* TCX: time codec and sorting.                                            *)
(***************************************************************************)
\* parse_time: the first layout of TimeFormats that matches gives the value.
parse_time(text) ==
    IF text.layout = TimeFormats[1] THEN text.val
    ELSE IF text.layout = TimeFormats[2] THEN text.val
    ELSE -1

\* to_tcx_time_string: always the first layout.
to_tcx_time_string(t) == [layout |-> TimeFormats[1], val |-> t]

RECURSIVE InsertByTime(_, _)
InsertByTime(x, s) ==
    IF s = <<>> THEN <<x>>
    ELSE IF x.time < Head(s).time THEN <<x>> \o s
    ELSE <<Head(s)>> \o InsertByTime(x, Tail(s))

\* sort_children_by that leaves the children as they are
sort_children_by_Skipped(s) == s

\* sort_children_by(parent, key = Trackpoint time): sorted() is stable.
RECURSIVE sort_children_by(_)
sort_children_by(s) ==
    IF s = <<>> THEN <<>>
    ELSE InsertByTime(s[Len(s)], sort_children_by(SubSeq(s, 1, Len(s) - 1)))

(***************************************************************************)
(* Lap view.                                                               *)
(***************************************************************************)
\* Lap.trackpoints: the Trackpoint elements of the lap, in document order.
LapTrackpoints(lap) == Concat([i \in 1..Len(lap.tracks) |-> lap.tracks[i].tps])

LapStartTime(lap) == parse_time(lap.start)

\* Lap.finish_time: the greatest trackpoint time.
LapFinishTime(lap) ==
    SeqMax([i \in 1..Len(LapTrackpoints(lap)) |-> LapTrackpoints(lap)[i].time])

\* Lap.overlaps with open intervals: laps that only touch do not overlap
LapOverlaps_Open(a, b) ==
    Max2(LapStartTime(a), LapStartTime(b)) < Min2(LapFinishTime(a), LapFinishTime(b))

\* Lap.overlaps
LapOverlaps(a, b) ==
    Max2(LapStartTime(a), LapStartTime(b)) <= Min2(LapFinishTime(a), LapFinishTime(b))

\* element(TotalTimeSeconds) / element(Calories): None when the lap has lost its
\* scalar children.
HasScalars(lap) == lap.fields # <<>>

\* element(DistanceMeters): the lap's own child, else the first trackpoint's.
LapDistance(lap) ==
    IF HasScalars(lap) THEN lap.fields[1].dist ELSE LapTrackpoints(lap)[1].dist

\* int(text) of TotalTimeSeconds: only the integer layout is a literal int() accepts.
IntParses(text) == text.layout = "int"

(***************************************************************************)
(* Tree access.  A lap is named by <<w, i>>: the i-th Lap of workout w.    *)
(***************************************************************************)
LapAt(d, ref) == d[ref[1]][ref[2]]
SetLap(d, ref, lap) == [d EXCEPT ![ref[1]][ref[2]] = lap]

LapRefs(d) == UNION {{<<w, i>> : i \in 1..Len(d[w])} : w \in Workouts}

Ok(d) == [docs |-> d, err |-> "none", info |-> <<>>]
Raise(d, e) == [docs |-> d, err |-> e, info |-> <<>>]

(***************************************************************************)
(* Lap.merge, lines 561-565: the distance of every trackpoint of the later *)
(* lap grows by the stored distance of the earlier lap.                    *)
(***************************************************************************)
\* the adjustment reaching the trackpoints of the first Track only
AdjustDistances_FirstTrack(lap, base) ==
    [lap EXCEPT !.tracks[1].tps =
        [j \in 1..Len(lap.tracks[1].tps) |-> [lap.tracks[1].tps[j] EXCEPT !.dist = @ + base]]]

AdjustDistances(lap, base) ==
    [lap EXCEPT !.tracks =
        [i \in 1..Len(lap.tracks) |->
            [lap.tracks[i] EXCEPT !.tps =
                [j \in 1..Len(lap.tracks[i].tps) |->
                    [lap.tracks[i].tps[j] EXCEPT !.dist = @ + base]]]]]

(***************************************************************************)
(* Lap.merge, lines 569-570: earlier._root.extend(later.elements(Track)).  *)
(* The argument is a generator over later._root.iter(), and extend moves   *)
(* each element it is given out of the tree that is being iterated.  The   *)
(* ElementTree API leaves iteration over a tree that is modified during    *)
(* the iteration undefined, so the walk is one of two:                     *)
(*   "snapshot": every Track of the later lap is found and moved;          *)
(*   "live":     lxml's iterator has fetched the node after the Track (its *)
(*               first child) before the Track is moved, so it goes on     *)
(*               inside the moved Track, at the end of the earlier lap,    *)
(*               and from there through what follows the earlier lap in    *)
(*               its document, up to the end of the later lap's subtree if *)
(*               it comes to it: the later lap's other tracks are found    *)
(*               only if the later lap follows the earlier one in the same *)
(*               document, and the tracks of the laps between are moved    *)
(*               as well.                                                  *)
(***************************************************************************)
Followers(d, e, l) ==
    {j \in 1..Len(d[e[1]]) :
        /\ j > e[2]
        /\ (l[1] = e[1] /\ l[2] > e[2]) => j <= l[2]}

RECURSIVE TracksOfLaps(_, _, _)
\* the tracks of the laps w[from..], those in F only, in document order
TracksOfLaps(w, from, F) ==
    IF from > Len(w) THEN <<>>
    ELSE (IF from \in F THEN w[from].tracks ELSE <<>>) \o TracksOfLaps(w, from + 1, F)

ExtendWithTracks(d, e, l, walk) ==
    LET later == LapAt(d, l) IN
    IF later.tracks = <<>> THEN d
    ELSE IF walk = "snapshot" THEN
        LET d1 == SetLap(d, l, [later EXCEPT !.tracks = <<>>])
        IN  SetLap(d1, e, [LapAt(d1, e) EXCEPT !.tracks = @ \o later.tracks])
    ELSE
        LET d1 == SetLap(d, l, [later EXCEPT !.tracks = Tail(@)])
            F == Followers(d1, e, l)
            moved == <<Head(later.tracks)>> \o TracksOfLaps(d1[e[1]], 1, F)
        IN  [w \in Workouts |->
                [i \in 1..Len(d1[w]) |->
                    IF <<w, i>> = e THEN [d1[w][i] EXCEPT !.tracks = @ \o moved]
                    ELSE IF w = e[1] /\ i \in F THEN [d1[w][i] EXCEPT !.tracks = <<>>]
                    ELSE d1[w][i]]]

(***************************************************************************)
(* Lap.merge, line 573: self._root[:] = earlier._root[:].  Slice           *)
(* assignment removes the receiver's children and moves the listed         *)
(* elements in: when the receiver is the earlier lap nothing changes, and  *)
(* when it is the later lap it takes every child of the earlier lap, the   *)
(* scalar children included, and the earlier lap is left without children. *)
(***************************************************************************)
CopyChildren(d, r, e) ==
    IF r = e THEN d
    ELSE LET src == LapAt(d, e)
             d1 == SetLap(d, r, [LapAt(d, r) EXCEPT !.fields = src.fields,
                                                    !.tracks = src.tracks])
         IN  SetLap(d1, e, [src EXCEPT !.fields = <<>>, !.tracks = <<>>])

\* Lap.merge, lines 567-573
SpliceTracks(d, r, e, l, walk) == CopyChildren(ExtendWithTracks(d, e, l, walk), r, e)

(***************************************************************************)
(* Lap.merge, lines 576-589: every trackpoint of the later lap (a list,    *)
(* taken before anything moves) is appended to the first Track of the      *)
(* earlier lap; the children of that Track are moved to the first Track of *)
(* the receiver, and the receiver's first Track is sorted by time.         *)
(***************************************************************************)
EmptyTracks(lap) ==
    [lap EXCEPT !.tracks = [i \in 1..Len(lap.tracks) |-> [lap.tracks[i] EXCEPT !.tps = <<>>]]]

SpliceTrackpoints(d, r, e, l) ==
    LET later_trackpoints == LapTrackpoints(LapAt(d, l))
        d1 == SetLap(d, l, EmptyTracks(LapAt(d, l)))
        d2 == SetLap(d1, e, [LapAt(d1, e) EXCEPT !.tracks[1].tps = @ \o later_trackpoints])
        pooled == LapAt(d2, e).tracks[1].tps
        d3 == IF r = e THEN d2
              ELSE SetLap(SetLap(d2, e, [LapAt(d2, e) EXCEPT !.tracks[1].tps = <<>>]),
                          r, [LapAt(d2, r) EXCEPT !.tracks[1].tps = pooled])
    IN  SetLap(d3, r, [LapAt(d3, r) EXCEPT !.tracks[1].tps = sort_children_by(@)])

(***************************************************************************)
(* Lap.merge, lines 591-594: the receiver's attribute and scalar children. *)
(* Each += reads the receiver's value, then the other lap's, then writes.  *)
(* A getter raises AttributeError when element() finds nothing, and        *)
(* ValueError when int() is given a text that is no integer literal.       *)
(***************************************************************************)
UpdateAggregates(d, r, o, e) ==
    LET d1 == SetLap(d, r, [LapAt(d, r) EXCEPT
                  !.start = to_tcx_time_string(LapStartTime(LapAt(d, e)))])
        self == LapAt(d1, r)
        lap == LapAt(d1, o)
    IN  IF ~HasScalars(self) THEN Raise(d1, "AttributeError")
        ELSE IF ~IntParses(self.fields[1].total) THEN Raise(d1, "ValueError")
        ELSE IF ~HasScalars(lap) THEN Raise(d1, "AttributeError")
        ELSE IF ~IntParses(lap.fields[1].total) THEN Raise(d1, "ValueError")
        ELSE
            LET total == [layout |-> "int",
                          val |-> self.fields[1].total.val + lap.fields[1].total.val]
            IN  Ok(SetLap(d1, r, [self EXCEPT
                    !.fields[1].total = total,
                    !.fields[1].dist = LapDistance(self) + LapDistance(lap),
                    !.fields[1].cal = @ + lap.fields[1].cal]))

(***************************************************************************)
(* Lap.merge, lines 557-559: the receiver is the earlier lap only when its *)
(* start is strictly before the other lap's.                               *)
(***************************************************************************)
\* the comparison of lines 557-559 turned round
Earlier_Flipped(d, r, o) ==
    IF LapStartTime(LapAt(d, r)) > LapStartTime(LapAt(d, o)) THEN r ELSE o

Earlier(d, r, o) == IF LapStartTime(LapAt(d, r)) < LapStartTime(LapAt(d, o)) THEN r ELSE o
Later(d, r, o) == IF Earlier(d, r, o) = r THEN o ELSE r

(***************************************************************************)
(* Lap.merge(self = r, lap = o, merge_kind)                                *)
(***************************************************************************)
LapMerge(d, r, o, merge_kind, walk) ==
    LET self == LapAt(d, r)
        lap == LapAt(d, o)
    IN  IF LapOverlaps(self, lap) THEN Raise(d, "OverlapError")
        ELSE
            LET e == Earlier(d, r, o)
                l == Later(d, r, o)
                base_distance == LapDistance(LapAt(d, e))
                d1 == SetLap(d, l, AdjustDistances(LapAt(d, l), base_distance))
                d2 == IF merge_kind = MERGE_INTO_SINGLE_LAP
                      THEN SpliceTracks(d1, r, e, l, walk)
                      ELSE SpliceTrackpoints(d1, r, e, l)
            IN  UpdateAggregates(d2, r, o, e)

(***************************************************************************)
(* Workout view.                                                           *)
(***************************************************************************)
\* Workout.start_time: the start of the lap that sorts first by start_time.
WorkoutStartTime(w) == SeqMin([i \in 1..Len(w) |-> LapStartTime(w[i])])

\* Workout.finish_time: the finish of the lap that sorts last by finish_time.
WorkoutFinishTime(w) == SeqMax([i \in 1..Len(w) |-> LapFinishTime(w[i])])

\* Workout.overlaps
WorkoutOverlaps(a, b) ==
    Max2(WorkoutStartTime(a), WorkoutStartTime(b))
        <= Min2(WorkoutFinishTime(a), WorkoutFinishTime(b))

(***************************************************************************)
(* Workout.merge, lines 339-344: activity.extend(workout.elements(Lap)),   *)
(* again a generator over the tree the elements are moved out of.  The     *)
(* "live" walk goes on inside the first Lap, now the last child of the     *)
(* receiver's Activity, and finds no Lap after it.                         *)
(***************************************************************************)
AppendLaps(d, self, workout, walk) ==
    LET other_laps == IF d[workout] = <<>> THEN <<>>
                      ELSE IF walk = "snapshot" THEN d[workout]
                      ELSE <<Head(d[workout])>>
        rest == SubSeq(d[workout], Len(other_laps) + 1, Len(d[workout]))
    IN  [d EXCEPT ![self] = @ \o other_laps, ![workout] = rest]

\* Workout.merge refusing only when neither workout has exactly one lap
WorkoutMerge_BothWrong(d, self, workout, merge_kind, walk) ==
    IF WorkoutOverlaps(d[self], d[workout]) THEN Raise(d, "OverlapError")
    ELSE IF merge_kind = APPEND_LAPS THEN Ok(AppendLaps(d, self, workout, walk))
    ELSE IF Len(d[self]) # 1 /\ Len(d[workout]) # 1
         THEN [docs |-> d, err |-> "LapCountError",
               info |-> <<self, workout, Len(d[self]), Len(d[workout])>>]
    ELSE LapMerge(d, <<self, 1>>, <<workout, 1>>, merge_kind, walk)

(***************************************************************************)
(* Workout.merge(self, workout, merge_kind)                                *)
(***************************************************************************)
WorkoutMerge(d, self, workout, merge_kind, walk) ==
    IF WorkoutOverlaps(d[self], d[workout]) THEN Raise(d, "OverlapError")
    ELSE IF merge_kind = APPEND_LAPS THEN Ok(AppendLaps(d, self, workout, walk))
    ELSE IF Len(d[self]) # 1 \/ Len(d[workout]) # 1
         THEN [docs |-> d, err |-> "LapCountError",
               info |-> <<self, workout, Len(d[self]), Len(d[workout])>>]
    ELSE LapMerge(d, <<self, 1>>, <<workout, 1>>, merge_kind, walk)

(***************************************************************************)
(* Inputs: documents as Workout.load returns them.  Every lap has its      *)
(* scalar children, at least one Track, and no empty Track.                *)
(***************************************************************************)
Compositions(n) ==
    {s \in UNION {[1..k -> 1..n] : k \in 1..n} : SumSeq(s) = n}

\* the lap with the given identity and start, whose n trackpoints, with the given
\* times, are cut into tracks of the given sizes
MkLap(id, start, layout, sizes, times) ==
    LET n == Len(times)
        first(k) == SumSeq(SubSeq(sizes, 1, k - 1))
        tp(j) == [id |-> <<id, j>>, time |-> times[j], dist |-> j]
    IN  [id |-> id,
         start |-> [layout |-> "whole", val |-> start],
         fields |-> <<[total |-> [layout |-> layout, val |-> id + 2],
                       dist |-> n + id,
                       cal |-> 2 * id + 1]>>,
         tracks |-> [k \in 1..Len(sizes) |->
                        [id |-> <<id, k>>,
                         tps |-> [j \in 1..sizes[k] |-> tp(first(k) + j)]]]]

NoCall == [op |-> "none", self |-> <<0, 0>>, other |-> <<0, 0>>, kind |-> 0]
NoOutcome == [err |-> "none", info |-> <<>>]

\* a lap's stored start: the time of its first trackpoint or, when late starts are
\* asked for, a time that is not before any trackpoint
Starts(times, late) == IF late THEN {times[1], MaxTime} ELSE {times[1]}

RichLaps(id, n, late) ==
    UNION {{MkLap(id, s, "int", z, t) : s \in Starts(t, late), z \in Compositions(n)}
           : t \in [1..n -> Times]}

\* two one-lap workouts, the laps with any tracks and any trackpoint order
PairInputs(late) ==
    {[w \in Workouts |-> <<IF w = 1 THEN ab[1] ELSE ab[2]>>] :
        ab \in UNION {RichLaps(1, n1, late)
                          \X UNION {RichLaps(2, n2, late) : n2 \in 1..MaxPoints - n1}
                      : n1 \in 1..MaxPoints - 1}}

LapInputs == PairInputs(FALSE)
LateStartInputs == PairInputs(TRUE)

\* two one-lap workouts of one trackpoint each, taken at the lap's start, with
\* either layout of TotalTimeSeconds
LayoutInputs ==
    {[w \in Workouts |-> <<IF w = 1 THEN ab[1] ELSE ab[2]>>] :
        ab \in
            {MkLap(1, t1, l1, <<1>>, <<t1>>) : l1 \in {"int", "dec"}, t1 \in Times}
            \X
            {MkLap(2, t2, l2, <<1>>, <<t2>>) : l2 \in {"int", "dec"}, t2 \in Times}}

\* workouts of up to MaxLaps laps of one trackpoint each, the laps in time order
LapTimes ==
    {ts \in UNION {[1..k -> Times] : k \in 1..MaxLaps} :
        \A i \in 1..Len(ts) - 1 : ts[i] <= ts[i + 1]}

RECURSIVE SimpleLaps(_, _)
SimpleLaps(base, ts) ==
    IF ts = <<>> THEN <<>>
    ELSE <<MkLap(base + 1, Head(ts), "int", <<1>>, <<Head(ts)>>)>>
            \o SimpleLaps(base + 1, Tail(ts))

WorkoutInputs ==
    {[w \in Workouts |-> IF w = 1 THEN SimpleLaps(0, tt[1])
                         ELSE SimpleLaps(Len(tt[1]), tt[2])] :
        tt \in LapTimes \X LapTimes}

MergeIdle ==
    /\ docs = [w \in Workouts |-> <<>>]
    /\ pre = docs
    /\ call = NoCall
    /\ outcome = NoOutcome

InfoIdle ==
    /\ files = <<>>
    /\ pos = 0
    /\ stream = <<>>
    /\ aborted = FALSE

Init ==
    /\ \/ docs \in LapInputs
       \/ docs \in WorkoutInputs
       \/ docs \in LayoutInputs
       \/ docs \in LateStartInputs
    /\ pre = docs
    /\ call = NoCall
    /\ outcome = NoOutcome
    /\ InfoIdle

(***************************************************************************)
(* Operations.  One merge call is made on the loaded documents.            *)
(***************************************************************************)
Walks == {"snapshot", "live"}

CallLapMerge ==
    /\ call.op = "none"
    /\ \E r \in LapRefs(docs), o \in LapRefs(docs), k \in LapMergeKinds, walk \in Walks :
        /\ r # o
        /\ LET res == LapMerge(docs, r, o, k, walk)
           IN  /\ docs' = res.docs
               /\ outcome' = [err |-> res.err, info |-> res.info]
        /\ call' = [op |-> "Lap.merge", self |-> r, other |-> o, kind |-> k]
    /\ pre' = docs
    /\ UNCHANGED <<files, pos, stream, aborted>>

CallWorkoutMerge ==
    /\ call.op = "none"
    /\ \E w \in Workouts, v \in Workouts, k \in WorkoutMergeKinds, walk \in Walks :
        /\ w # v
        /\ LET res == WorkoutMerge(docs, w, v, k, walk)
           IN  /\ docs' = res.docs
               /\ outcome' = [err |-> res.err, info |-> res.info]
        /\ call' = [op |-> "Workout.merge", self |-> <<w, 0>>, other |-> <<v, 0>>, kind |-> k]
    /\ pre' = docs
    /\ UNCHANGED <<files, pos, stream, aborted>>

Next == CallLapMerge \/ CallWorkoutMerge

Spec == Init /\ [][Next]_vars

(***************************************************************************)
(* What the properties below speak of.                                     *)
(***************************************************************************)
\* the closed intervals [s1, f1] and [s2, f2] have an instant in common
Intersect(s1, f1, s2, f2) == \E t \in Times : s1 <= t /\ t <= f1 /\ s2 <= t /\ t <= f2

LapsIntersect(a, b) ==
    Intersect(LapStartTime(a), LapFinishTime(a), LapStartTime(b), LapFinishTime(b))

WorkoutsIntersect(a, b) ==
    Intersect(WorkoutStartTime(a), WorkoutFinishTime(a),
              WorkoutStartTime(b), WorkoutFinishTime(b))

LapCall == call.op = "Lap.merge"
WorkoutCall == call.op = "Workout.merge"

\* the operands of a lap call, as they were before the call and as they are now
PreSelf == LapAt(pre, call.self)
PreOther == LapAt(pre, call.other)
NowSelf == LapAt(docs, call.self)

\* the operands of a workout call
PreSelfWorkout == pre[call.self[1]]
PreOtherWorkout == pre[call.other[1]]

SeqToSet(s) == {s[i] : i \in 1..Len(s)}

\* every trackpoint of every document
AllTrackpoints(d) ==
    UNION {UNION {SeqToSet(LapTrackpoints(d[w][i])) : i \in 1..Len(d[w])} : w \in Workouts}

NonDecreasing(tps) == \A i \in 1..Len(tps) - 1 : tps[i].time <= tps[i + 1].time

LapCallSucceeded == LapCall /\ outcome.err = "none"

(***************************************************************************)
(* C1: whenever the closed intervals [start_time, finish_time] of the two  *)
(* laps of a Lap.merge call, or of the two workouts of a Workout.merge     *)
(* call, have an instant in common (a single shared instant included), the *)
(* call ends in the overlap error, whatever the merge kind, and both       *)
(* documents are as they were before the call.                             *)
(***************************************************************************)
C1_OverlapRejected ==
    /\ (LapCall /\ LapsIntersect(PreSelf, PreOther))
          => (outcome.err = "OverlapError" /\ docs = pre)
    /\ (WorkoutCall /\ WorkoutsIntersect(PreSelfWorkout, PreOtherWorkout))
          => (outcome.err = "OverlapError" /\ docs = pre)

\* a lap merge of two laps that touch at one instant only was rejected
C1_Witness ==
    /\ LapCall
    /\ LapFinishTime(PreSelf) = LapStartTime(PreOther)
    /\ LapStartTime(PreSelf) < LapFinishTime(PreSelf)
    /\ LapStartTime(PreOther) <= LapFinishTime(PreOther)
    /\ outcome.err = "OverlapError"
    /\ docs = pre

(***************************************************************************)
(* C2: after a Lap.merge call on two laps that do not overlap, of either   *)
(* kind and whichever lap is the receiver, the receiver's stored           *)
(* total_seconds, distance_meters and calories are the sums of the two     *)
(* laps' values before the call.                                           *)
(***************************************************************************)
C2_AggregatesAreSums ==
    (LapCall /\ ~LapsIntersect(PreSelf, PreOther)) =>
        /\ HasScalars(NowSelf)
        /\ NowSelf.fields[1].total.val
              = PreSelf.fields[1].total.val + PreOther.fields[1].total.val
        /\ NowSelf.fields[1].dist = PreSelf.fields[1].dist + PreOther.fields[1].dist
        /\ NowSelf.fields[1].cal = PreSelf.fields[1].cal + PreOther.fields[1].cal

(***************************************************************************)
(* C3: a merge call ends without error, or in the overlap error or the     *)
(* lap-count error, and a call that ends in an error leaves both documents *)
(* as they were before the call.                                           *)
(***************************************************************************)
C3_MergeAtomic ==
    (LapCall \/ WorkoutCall) =>
        /\ outcome.err \in {"none", "OverlapError", "LapCountError"}
        /\ outcome.err # "none" => docs = pre

(***************************************************************************)
(* C4: after a Workout.merge call with the append-laps policy on workouts  *)
(* that do not overlap, the receiver holds its own laps followed by every  *)
(* lap of the donor, in the donor's order, each lap as it was.             *)
(***************************************************************************)
C4_AppendKeepsEveryLap ==
    (WorkoutCall /\ call.kind = APPEND_LAPS
        /\ ~WorkoutsIntersect(PreSelfWorkout, PreOtherWorkout)) =>
        /\ outcome.err = "none"
        /\ docs[call.self[1]] = PreSelfWorkout \o PreOtherWorkout
        /\ Len(docs[call.self[1]]) = Len(PreSelfWorkout) + Len(PreOtherWorkout)

DistancesReconciled(earlier, later) ==
    LET base == earlier.fields[1].dist IN
    /\ LapStartTime(earlier) <= LapStartTime(later)
    /\ \A p \in SeqToSet(LapTrackpoints(later)) :
          /\ \E q \in AllTrackpoints(docs) : q.id = p.id
          /\ \A q \in AllTrackpoints(docs) :
                q.id = p.id => (q.dist = p.dist + base /\ q.dist >= base)
    /\ \A p \in SeqToSet(LapTrackpoints(earlier)) :
          /\ \E q \in AllTrackpoints(docs) : q.id = p.id
          /\ \A q \in AllTrackpoints(docs) : q.id = p.id => q.dist = p.dist

C6_LaterDistancesOffset ==
    LapCallSucceeded =>
        \/ DistancesReconciled(PreSelf, PreOther)
        \/ DistancesReconciled(PreOther, PreSelf)

\* the receiver was the later lap, with two tracks, and its trackpoints were offset
C6_Witness ==
    /\ LapCallSucceeded
    /\ LapStartTime(PreOther) < LapStartTime(PreSelf)
    /\ Len(PreSelf.tracks) = 2
    /\ DistancesReconciled(PreOther, PreSelf)

(***************************************************************************)
(* C7: after a single-track Lap.merge call that succeeded, the trackpoints *)
(* of the receiver's track that took the pooled trackpoints are in         *)
(* non-decreasing time order.                                              *)
(***************************************************************************)
C7_FlattenedTrackSorted ==
    (LapCallSucceeded /\ call.kind = MERGE_INTO_SINGLE_TRACK) =>
        NonDecreasing(NowSelf.tracks[1].tps)

\* the pooled trackpoints were out of order before the call and are in order now
C7_Witness ==
    /\ LapCallSucceeded
    /\ call.kind = MERGE_INTO_SINGLE_TRACK
    /\ ~NonDecreasing(PreSelf.tracks[1].tps)
    /\ Len(NowSelf.tracks[1].tps) = Len(PreSelf.tracks[1].tps) + Len(LapTrackpoints(PreOther))
    /\ NonDecreasing(NowSelf.tracks[1].tps)

(***************************************************************************)
(* C8: after a Lap.merge call that succeeded, of either kind, the          *)
(* trackpoints of the receiver, taken in document order across all of its  *)
(* tracks, have non-decreasing times.                                      *)
(***************************************************************************)
C8_LapInTimeOrder ==
    LapCallSucceeded => NonDecreasing(LapTrackpoints(NowSelf))

(***************************************************************************)
(* C9: after a Lap.merge call that succeeded, the receiver's stored        *)
(* start_time is the smaller of the two laps' start times before the call. *)
(***************************************************************************)
C9_StartIsMinimum ==
    LapCallSucceeded =>
        LapStartTime(NowSelf) = Min2(LapStartTime(PreSelf), LapStartTime(PreOther))

\* the receiver started later than the other lap and now has the other lap's start
C9_Witness ==
    /\ LapCallSucceeded
    /\ LapStartTime(PreOther) < LapStartTime(PreSelf)
    /\ LapStartTime(NowSelf) = LapStartTime(PreOther)
    /\ NowSelf.start.layout = "frac"

(***************************************************************************)
(* C12: after a single-track Lap.merge call that succeeded, whatever the   *)
(* number of tracks of the two laps and whichever lap is the receiver, one *)
(* Track of the receiver holds every trackpoint of both laps, each once,   *)
(* and no trackpoint is anywhere else: not in another track of the         *)
(* receiver and not in the other lap.                                      *)
(***************************************************************************)
TpIds(tps) == {tps[i].id : i \in 1..Len(tps)}

NowOther == LapAt(docs, call.other)

C12_AllInOneTrack ==
    (LapCallSucceeded /\ call.kind = MERGE_INTO_SINGLE_TRACK) =>
        \E k \in 1..Len(NowSelf.tracks) :
            /\ TpIds(NowSelf.tracks[k].tps)
                  = TpIds(LapTrackpoints(PreSelf)) \cup TpIds(LapTrackpoints(PreOther))
            /\ Len(NowSelf.tracks[k].tps)
                  = Len(LapTrackpoints(PreSelf)) + Len(LapTrackpoints(PreOther))
            /\ \A m \in 1..Len(NowSelf.tracks) : m # k => NowSelf.tracks[m].tps = <<>>
            /\ LapTrackpoints(NowOther) = <<>>

(***************************************************************************)
(* C13: after a single-lap Lap.merge call that succeeded, whatever the     *)
(* number of tracks of the two laps and whichever lap is the receiver, the *)
(* tracks of the receiver are the tracks of the lap that started earlier,  *)
(* in their order, followed by the tracks of the lap that started later,   *)
(* in their order, and each track holds the trackpoints it held before the *)
(* call, in the same order.  (Of two laps with the same start either may   *)
(* be taken as the earlier one.)                                           *)
(***************************************************************************)
\* a track by the identity of its element and of its trackpoints, in order
TrackShape(t) == [id |-> t.id, tps |-> [j \in 1..Len(t.tps) |-> t.tps[j].id]]

TrackShapes(lap) == [k \in 1..Len(lap.tracks) |-> TrackShape(lap.tracks[k])]

TracksJoined(earlier, later) ==
    /\ LapStartTime(earlier) <= LapStartTime(later)
    /\ TrackShapes(NowSelf) = TrackShapes(earlier) \o TrackShapes(later)

C13_TracksKeptInOrder ==
    (LapCallSucceeded /\ call.kind = MERGE_INTO_SINGLE_LAP) =>
        \/ TracksJoined(PreSelf, PreOther)
        \/ TracksJoined(PreOther, PreSelf)

(***************************************************************************)
(* handle_info, lines 817-824.  A file of the input list is                *)
(*   "ok":         Workout.load and Workout.info both return;              *)
(*   "unreadable": Workout.load raises (the file is missing, or is not     *)
(*                 XML);                                                   *)
(*   "malformed":  Workout.load returns and Workout.info raises part way   *)
(*                 through the report (a required element is absent, a     *)
(*                 text does not parse).                                   *)
(* What is printed for the n-th file is a sequence of [msg, file] records. *)
(***************************************************************************)
FileKinds == {"ok", "unreadable", "malformed"}

InfoInputs == UNION {[1..n -> FileKinds] : n \in 0..MaxFiles}

\* lines 820-822: what the try block prints before it returns or raises
TryOutput(kind, n) ==
    <<[msg |-> "header", file |-> n]>> \o
    (IF kind = "ok" THEN <<[msg |-> "report", file |-> n]>>
     ELSE IF kind = "malformed" THEN <<[msg |-> "partial report", file |-> n]>>
     ELSE <<>>)

\* lines 821-822: the try block raises
Raises(kind) == kind # "ok"

\* a handler for the errors of Workout.load only
Caught_LoadOnly(kind) == kind = "unreadable"

\* line 823: except Exception catches what load and info raise
Caught(kind) == TRUE

\* line 824
FailureOutput(n) == <<[msg |-> "failed", file |-> n]>>

InitInfo ==
    /\ files \in InfoInputs
    /\ pos = 0
    /\ stream = <<>>
    /\ aborted = FALSE
    /\ MergeIdle

\* one iteration of the for loop: the file is reported, or its failure is
HandleInfoFile ==
    /\ ~aborted
    /\ pos < Len(files)
    /\ LET n == pos + 1
           kind == files[n]
       IN  IF ~Raises(kind)
           THEN /\ stream' = stream \o TryOutput(kind, n)
                /\ pos' = n
                /\ aborted' = FALSE
           ELSE IF Caught(kind)
           THEN /\ stream' = stream \o TryOutput(kind, n) \o FailureOutput(n)
                /\ pos' = n
                /\ aborted' = FALSE
           ELSE /\ stream' = stream \o TryOutput(kind, n)
                /\ pos' = pos
                /\ aborted' = TRUE
    /\ UNCHANGED <<files, docs, pre, call, outcome>>

NextInfo == HandleInfoFile

SpecInfo == InitInfo /\ [][NextInfo]_vars

(***************************************************************************)
(* C10: handle_info attempts the files in list order: the headers printed  *)
(* are those of the files 1..pos in that order; every attempted file that  *)
(* failed to load or to report has its failure message, after its header   *)
(* and before the next file's; the loop is never left by an exception, and *)
(* as long as files remain the next one can be attempted, whatever         *)
(* happened to the files before it.                                        *)
(***************************************************************************)
Headers == SelectSeq(stream, LAMBDA m : m.msg = "header")

Index(m) == CHOOSE i \in 1..Len(stream) : stream[i] = m

C10_BatchContinues ==
    /\ ~aborted
    /\ pos <= Len(files)
    /\ Headers = [n \in 1..pos |-> [msg |-> "header", file |-> n]]
    /\ \A n \in 1..pos :
          files[n] # "ok" =>
              /\ \E i \in 1..Len(stream) : stream[i] = [msg |-> "failed", file |-> n]
              /\ Index([msg |-> "header", file |-> n]) < Index([msg |-> "failed", file |-> n])
              /\ n < pos =>
                    Index([msg |-> "failed", file |-> n])
                        < Index([msg |-> "header", file |-> n + 1])
    /\ \A n \in 1..pos :
          files[n] = "ok" => \A i \in 1..Len(stream) : stream[i] # [msg |-> "failed", file |-> n]
    /\ pos < Len(files) => ENABLED HandleInfoFile

\* a file that failed to load and one that failed to report were followed by a
\* file that was reported, the last of the list
C10_Witness ==
    /\ pos = Len(files)
    /\ pos >= 3
    /\ files[1] = "unreadable"
    /\ files[2] = "malformed"
    /\ files[pos] = "ok"
    /\ stream[Len(stream)] = [msg |-> "report", file |-> pos]

(***************************************************************************)
(* Workout.scale, lines 311-330.  A trackpoint of a workout that is scaled *)
(* is [id, time, dist, cadence, watts]: cadence and watts are the texts of *)
(* the optional Cadence and Watts elements, a sequence of length 0 when    *)
(* the element is absent and of length 1 when it is there.  A number text  *)
(* is [layout, val]: float() reads both layouts and str(float()) writes    *)
(* the decimal one.                                                        *)
(***************************************************************************)
MaxFactor == 3    \* scale factors are 1..MaxFactor

ScaleFactors == 1..MaxFactor

NumText(v) == [layout |-> "int", val |-> v]

\* float(node.text)
FloatOf(text) == text.val

\* str(float(x))
StrOfFloat(x) == [layout |-> "dec", val |-> x]

\* Trackpoint.cadence / Trackpoint.watts getters: None when the element is absent
IsNone(node) == node = <<>>

\* lines 323-330 for one trackpoint.  None * scale_factor raises TypeError, after
\* the assignments before it have been made.
ScaleTrackpoint(tp, scale_factor, scale_distance, scale_cadence, scale_watts) ==
    LET t1 == IF scale_distance THEN [tp EXCEPT !.dist = @ * scale_factor] ELSE tp
    IN  IF scale_cadence /\ IsNone(tp.cadence) THEN [tp |-> t1, err |-> "TypeError"]
        ELSE
            LET t2 == IF scale_cadence
                      THEN [t1 EXCEPT !.cadence = <<StrOfFloat(FloatOf(@[1]) * scale_factor)>>]
                      ELSE t1
            IN  IF scale_watts /\ IsNone(tp.watts) THEN [tp |-> t2, err |-> "TypeError"]
                ELSE [tp |-> IF scale_watts
                             THEN [t2 EXCEPT !.watts =
                                      <<StrOfFloat(FloatOf(@[1]) * scale_factor)>>]
                             ELSE t2,
                      err |-> "none"]

\* lines 320-321: the trackpoints of a workout in the order of the two for loops,
\* each named by <<lap, track, trackpoint>>
Positions(w) ==
    Concat([i \in 1..Len(w) |->
        Concat([k \in 1..Len(w[i].tracks) |->
            [j \in 1..Len(w[i].tracks[k].tps) |-> <<i, k, j>>]])])

TpAt(w, p) == w[p[1]].tracks[p[2]].tps[p[3]]

\* the loops from the trackpoints ps on: the first exception ends them
RECURSIVE ScaleFrom(_, _, _, _, _, _)
ScaleFrom(w, ps, scale_factor, scale_distance, scale_cadence, scale_watts) ==
    IF ps = <<>> THEN [w |-> w, err |-> "none"]
    ELSE
        LET p == Head(ps)
            res == ScaleTrackpoint(TpAt(w, p), scale_factor,
                                   scale_distance, scale_cadence, scale_watts)
            w1 == [w EXCEPT ![p[1]].tracks[p[2]].tps[p[3]] = res.tp]
        IN  IF res.err # "none" THEN [w |-> w1, err |-> res.err]
            ELSE ScaleFrom(w1, Tail(ps), scale_factor,
                           scale_distance, scale_cadence, scale_watts)

\* Workout.scale(self, scale_factor, scale_distance, scale_cadence, scale_watts)
WorkoutScale(d, self, scale_factor, scale_distance, scale_cadence, scale_watts) ==
    LET res == ScaleFrom(d[self], Positions(d[self]), scale_factor,
                         scale_distance, scale_cadence, scale_watts)
    IN  [docs |-> [d EXCEPT ![self] = res.w], err |-> res.err, info |-> <<>>]

\* the workout whose n trackpoints are cut into laps of the sizes z, one Track to
\* a lap, the j-th trackpoint with a Cadence element when c[j] and a Watts element
\* when p[j]
ScaleWorkout(z, c, p) ==
    LET first(i) == SumSeq(SubSeq(z, 1, i - 1))
        tp(j) == [id |-> j, time |-> j - 1, dist |-> j,
                  cadence |-> IF c[j] THEN <<NumText(j + 1)>> ELSE <<>>,
                  watts |-> IF p[j] THEN <<NumText(j + 2)>> ELSE <<>>]
    IN  [i \in 1..Len(z) |->
            [id |-> i,
             start |-> [layout |-> "whole", val |-> first(i)],
             fields |-> <<[total |-> NumText(z[i]), dist |-> first(i) + z[i],
                           cal |-> 2 * i + 1]>>,
             tracks |-> <<[id |-> <<i, 1>>,
                           tps |-> [j \in 1..z[i] |-> tp(first(i) + j)]]>>]]

\* workout 1 loaded, with up to MaxLaps laps and MaxPoints trackpoints
ScaleInputs ==
    UNION {{[w \in Workouts |-> IF w = 1 THEN ScaleWorkout(z, c, p) ELSE <<>>] :
                z \in {y \in Compositions(n) : Len(y) <= MaxLaps},
                c \in [1..n -> BOOLEAN], p \in [1..n -> BOOLEAN]}
           : n \in 1..MaxPoints}

InitScale ==
    /\ docs \in ScaleInputs
    /\ pre = docs
    /\ call = NoCall
    /\ outcome = NoOutcome
    /\ InfoIdle

CallScale ==
    /\ call.op = "none"
    /\ \E f \in ScaleFactors, sd \in BOOLEAN, sc \in BOOLEAN, sw \in BOOLEAN :
        /\ LET res == WorkoutScale(docs, 1, f, sd, sc, sw)
           IN  /\ docs' = res.docs
               /\ outcome' = [err |-> res.err, info |-> res.info]
        /\ call' = [op |-> "Workout.scale", self |-> <<1, 0>>, other |-> <<0, 0>>,
                    kind |-> 0, factor |-> f, flags |-> <<sd, sc, sw>>]
    /\ pre' = docs
    /\ UNCHANGED <<files, pos, stream, aborted>>

NextScale == CallScale

SpecScale == InitScale /\ [][NextScale]_vars

(***************************************************************************)
(* C11: a Workout.scale call with the three flags on ends without error on *)
(* every workout, whether or not its trackpoints have the optional Cadence *)
(* and Watts elements; after it every trackpoint has its distance, and its *)
(* cadence and watts where it had them, multiplied by the factor, an       *)
(* absent element is still absent, and no trackpoint has some of its       *)
(* fields scaled and others not.                                           *)
(***************************************************************************)
ScaleCall == call.op = "Workout.scale"

OptionalScaled(now, before, f) ==
    IF IsNone(before) THEN IsNone(now)
    ELSE ~IsNone(now) /\ FloatOf(now[1]) = f * FloatOf(before[1])

FullyScaled(now, before, f) ==
    /\ now.dist = f * before.dist
    /\ OptionalScaled(now.cadence, before.cadence, f)
    /\ OptionalScaled(now.watts, before.watts, f)

C11_ScaleCompletes ==
    (ScaleCall /\ call.flags = <<TRUE, TRUE, TRUE>>) =>
        /\ outcome.err = "none"
        /\ Positions(docs[1]) = Positions(pre[1])
        /\ \A p \in SeqToSet(Positions(pre[1])) :
              FullyScaled(TpAt(docs[1], p), TpAt(pre[1], p), call.factor)
        /\ \A p \in SeqToSet(Positions(pre[1])) :
              \/ FullyScaled(TpAt(docs[1], p), TpAt(pre[1], p), call.factor)
              \/ TpAt(docs[1], p) = TpAt(pre[1], p)

====
